---- MODULE Spec2Model ----
(***************************************************************************)
(* Model of src/qdrant/seed_qdrant.py: seed_data() connects to the vector  *)
(* database with an unbounded retry loop, loads data.json, creates the     *)
(* collection when it is absent, turns every record into a point and       *)
(* writes all points with one upsert call.                                 *)
(*                                                                         *)
(* The database is the environment.  Every client call may raise; a call   *)
(* that raises is taken to have had no effect on the database, and an      *)
(* upsert is applied as a whole (overwrite by identifier) or not at all.   *)
(***************************************************************************)
EXTENDS Integers, Sequences, FiniteSets, TLC

\* ---- bounds of the model -------------------------------------------------
MaxRecords == 2      \* longest data.json array
MaxFails == 2        \* most failed health probes in one run
MaxRuns == 2         \* how many times the script is run

\* ---- input domain --------------------------------------------------------
Ids == {1, 2}
Vectors == {<<0>>, <<0, 0>>}
Cams == {"A"}

EmptyDict == [k \in {} |-> 0]

\* an option is a set with at most one element
Opt(S) == {{}} \cup {{x} : x \in S}

Field(k, o) == IF o = {} THEN EmptyDict ELSE (k :> (CHOOSE x \in o : TRUE))

\* a JSON object with any subset of the fields id, vectors, cam
MkRecord(i, v, c) == Field("id", i) @@ Field("vectors", v) @@ Field("cam", c)

Records == {MkRecord(i, v, c) : i \in Opt(Ids), v \in Opt(Vectors), c \in Opt(Cams)}

SeqsUpTo(S, n) == UNION {[1..m -> S] : m \in 0..n}

Files == SeqsUpTo(Records, MaxRecords)

\* ---- the database --------------------------------------------------------
Absent == [exists |-> FALSE, size |-> 0, distance |-> "none", points |-> {}]

Collection(size, distance, pts) ==
    [exists |-> TRUE, size |-> size, distance |-> distance, points |-> pts]

OtherPoint == [id |-> 3, vector |-> <<0, 0>>, payload |-> ("cam" :> "Z")]
OldPoint == [id |-> 1, vector |-> <<0>>, payload |-> ("cam" :> "Z")]

\* states the database can be in before the script is run
InitialDbs ==
    { Absent,
      Collection(1, "Euclid", {OldPoint}),
      Collection(2, "Euclid", {OtherPoint}) }

\* one point overwrites the stored point with the same identifier
PutPoint(pts, p) == {q \in pts : q.id # p.id} \cup {p}

RECURSIVE PutAll(_, _)
PutAll(pts, ps) ==
    IF ps = <<>> THEN pts ELSE PutAll(PutPoint(pts, Head(ps)), Tail(ps))

\* the database accepts a batch only for an existing collection and only
\* when every vector has the collection's dimensionality
DbAccepts(d, ps) ==
    /\ d.exists
    /\ \A i \in 1..Len(ps) : Len(ps[i].vector) = d.size

DbUpsert(d, ps) == [d EXCEPT !.points = PutAll(d.points, ps)]

DbCreate(size, distance) == Collection(size, distance, {})

\* ---- client-side helpers -------------------------------------------------
\* dict.pop(key): the dict without the key
Pop(item, k) == [x \in DOMAIN item \ {k} |-> item[x]]

Call(op, ok) == [op |-> op, ok |-> ok]

VARIABLES
    pc,           \* position in seed_data
    run,          \* which execution of the script this is
    file,         \* content of data.json
    db,           \* the collection COLLECTION_NAME in the database
    connected,    \* local variable connected
    data,         \* local variable data (its dicts are mutated by pop)
    vector_size,  \* local variable vector_size
    idx,          \* position of the list comprehension in data
    points,       \* points built so far
    calls,        \* client calls made in this run, in order
    reported,     \* count printed by the last line, -1 before that
    errAt,        \* statement that raised when pc = "error", "" otherwise
    dbStart,      \* db when this run started
    prevDone      \* stored points at the end of the previous run when it completed

vars == <<pc, run, file, db, connected, data, vector_size, idx, points,
          calls, reported, errAt, dbStart, prevDone>>

locals == <<connected, data, vector_size, idx, points, reported>>

\* a point whose identifier is generated afresh on every run
PointStructFreshId(item) ==
    [id |-> 10 * run + item["id"],
     vector |-> item["vectors"],
     payload |-> Pop(Pop(item, "id"), "vectors")]

\* a point built with item.get(...): the payload keeps id and vectors
PointStructKeep(item) ==
    [id |-> item["id"],
     vector |-> item["vectors"],
     payload |-> item]

\* PointStruct(id=item.pop("id"), vector=item.pop("vectors"), payload=item)
PointStruct(item) ==
    [id |-> item["id"],
     vector |-> item["vectors"],
     payload |-> Pop(Pop(item, "id"), "vectors")]

NoPrev == [valid |-> FALSE, points |-> {}]

Init ==
    /\ pc = "connect"
    /\ run = 1
    /\ file \in Files
    /\ db \in InitialDbs
    /\ connected = FALSE
    /\ data = <<>>
    /\ vector_size = 0
    /\ idx = 1
    /\ points = <<>>
    /\ calls = <<>>
    /\ reported = -1
    /\ errAt = ""
    /\ dbStart = db
    /\ prevDone = NoPrev

CallsOf(op) == {i \in 1..Len(calls) : calls[i].op = op}

Fails == Cardinality({i \in CallsOf("get_collections") : ~calls[i].ok})

\* the except branch re-raises instead of retrying
ProbeFailAbort ==
    /\ pc = "connect"
    /\ ~connected
    /\ Fails < MaxFails
    /\ calls' = Append(calls, Call("get_collections", FALSE))
    /\ pc' = "error"
    /\ errAt' = "connect"
    /\ UNCHANGED <<run, file, db, locals, dbStart, prevDone>>

\* lines 25-32, client.get_collections() raises: log, sleep, loop again
ProbeFail ==
    /\ pc = "connect"
    /\ ~connected
    /\ Fails < MaxFails
    /\ calls' = Append(calls, Call("get_collections", FALSE))
    /\ UNCHANGED <<pc, run, file, db, locals, errAt, dbStart, prevDone>>

\* the try branch forgets connected = True
ProbeOkForget ==
    /\ pc = "connect"
    /\ ~connected
    /\ calls' = Append(calls, Call("get_collections", TRUE))
    /\ UNCHANGED <<pc, run, file, db, locals, errAt, dbStart, prevDone>>

\* lines 25-29, client.get_collections() returns
ProbeOk ==
    /\ pc = "connect"
    /\ ~connected
    /\ calls' = Append(calls, Call("get_collections", TRUE))
    /\ connected' = TRUE
    /\ UNCHANGED <<pc, run, file, db, data, vector_size, idx, points, reported,
                   errAt, dbStart, prevDone>>

\* line 25, the loop condition is false
LoopExit ==
    /\ pc = "connect"
    /\ connected
    /\ pc' = "load"
    /\ UNCHANGED <<run, file, db, locals, calls, errAt, dbStart, prevDone>>

\* lines 35-36, data = json.load(f)
Load ==
    /\ pc = "load"
    /\ data' = file
    /\ pc' = "vector_size"
    /\ UNCHANGED <<run, file, db, connected, vector_size, idx, points, reported,
                   calls, errAt, dbStart, prevDone>>

\* lines 35-36, open() or json.load() raises
LoadFail ==
    /\ pc = "load"
    /\ pc' = "error"
    /\ errAt' = "load"
    /\ UNCHANGED <<run, file, db, locals, calls, dbStart, prevDone>>

\* the size defaults to 0 when there is no first record
VectorSizeDefault ==
    /\ pc = "vector_size"
    /\ IF data # <<>> /\ "vectors" \notin DOMAIN data[1]
       THEN /\ pc' = "error"
            /\ errAt' = "vector_size"
            /\ UNCHANGED vector_size
       ELSE /\ vector_size' = IF data = <<>> THEN 0 ELSE Len(data[1]["vectors"])
            /\ pc' = "exists"
            /\ UNCHANGED errAt
    /\ UNCHANGED <<run, file, db, connected, data, idx, points, reported,
                   calls, dbStart, prevDone>>

\* the size is taken from the last record, data[-1]
VectorSizeLast ==
    /\ pc = "vector_size"
    /\ IF data = <<>> \/ "vectors" \notin DOMAIN data[Len(data)]
       THEN /\ pc' = "error"
            /\ errAt' = "vector_size"
            /\ UNCHANGED vector_size
       ELSE /\ vector_size' = Len(data[Len(data)]["vectors"])
            /\ pc' = "exists"
            /\ UNCHANGED errAt
    /\ UNCHANGED <<run, file, db, connected, data, idx, points, reported,
                   calls, dbStart, prevDone>>

\* line 39, vector_size = len(data[0]['vectors']): IndexError on an empty
\* array, KeyError when the first record has no vectors
VectorSize ==
    /\ pc = "vector_size"
    /\ IF data = <<>> \/ "vectors" \notin DOMAIN data[1]
       THEN /\ pc' = "error"
            /\ errAt' = "vector_size"
            /\ UNCHANGED vector_size
       ELSE /\ vector_size' = Len(data[1]["vectors"])
            /\ pc' = "exists"
            /\ UNCHANGED errAt
    /\ UNCHANGED <<run, file, db, connected, data, idx, points, reported,
                   calls, dbStart, prevDone>>

\* the result of the existence check is ignored
CollectionExistsIgnored ==
    /\ pc = "exists"
    /\ \E ok \in BOOLEAN :
        /\ calls' = Append(calls, Call("collection_exists", ok))
        /\ pc' = IF ~ok THEN "error" ELSE "create"
        /\ errAt' = IF ~ok THEN "exists" ELSE errAt
    /\ UNCHANGED <<run, file, db, locals, dbStart, prevDone>>

\* line 40, client.collection_exists(COLLECTION_NAME)
CollectionExists ==
    /\ pc = "exists"
    /\ \E ok \in BOOLEAN :
        /\ calls' = Append(calls, Call("collection_exists", ok))
        /\ pc' = IF ~ok THEN "error" ELSE IF db.exists THEN "transform" ELSE "create"
        /\ errAt' = IF ~ok THEN "exists" ELSE errAt
    /\ UNCHANGED <<run, file, db, locals, dbStart, prevDone>>

\* lines 41-44, client.create_collection(collection_name=COLLECTION_NAME,
\* vectors_config=VectorParams(size=vector_size, distance=Distance.COSINE))
CreateCollection ==
    /\ pc = "create"
    /\ \E ok \in BOOLEAN :
        /\ calls' = Append(calls, [op |-> "create_collection", ok |-> ok,
                                   size |-> vector_size, distance |-> "Cosine"])
        /\ IF ok
           THEN /\ db' = DbCreate(vector_size, "Cosine")
                /\ pc' = "transform"
                /\ UNCHANGED errAt
           ELSE /\ pc' = "error"
                /\ errAt' = "create"
                /\ UNCHANGED db
    /\ UNCHANGED <<run, file, locals, dbStart, prevDone>>

\* a record without id or vectors is skipped instead of raising
TransformItemSkip ==
    /\ pc = "transform"
    /\ idx <= Len(data)
    /\ LET item == data[idx] IN
       IF "id" \notin DOMAIN item \/ "vectors" \notin DOMAIN item
       THEN UNCHANGED <<data, points>>
       ELSE /\ points' = Append(points, PointStruct(item))
            /\ data' = [data EXCEPT ![idx] = Pop(Pop(item, "id"), "vectors")]
    /\ idx' = idx + 1
    /\ pc' = IF idx = Len(data) THEN "upsert" ELSE "transform"
    /\ UNCHANGED <<run, file, db, connected, vector_size, reported, calls,
                   errAt, dbStart, prevDone>>

\* every point is written as soon as it is built
TransformItemStream ==
    /\ pc = "transform"
    /\ idx <= Len(data)
    /\ LET item == data[idx] IN
       IF "id" \notin DOMAIN item
       THEN /\ pc' = "error"
            /\ errAt' = "transform"
            /\ UNCHANGED <<data, idx, points, db, calls>>
       ELSE IF "vectors" \notin DOMAIN item
       THEN /\ pc' = "error"
            /\ errAt' = "transform"
            /\ data' = [data EXCEPT ![idx] = Pop(item, "id")]
            /\ UNCHANGED <<idx, points, db, calls>>
       ELSE /\ points' = Append(points, PointStruct(item))
            /\ data' = [data EXCEPT ![idx] = Pop(Pop(item, "id"), "vectors")]
            /\ idx' = idx + 1
            /\ DbAccepts(db, <<PointStruct(item)>>)
            /\ db' = DbUpsert(db, <<PointStruct(item)>>)
            /\ calls' = Append(calls, [op |-> "upsert", ok |-> TRUE, n |-> 1])
            /\ pc' = IF idx = Len(data) THEN "report" ELSE "transform"
            /\ UNCHANGED errAt
    /\ UNCHANGED <<run, file, connected, vector_size, reported, dbStart, prevDone>>

\* lines 47-53, one iteration of the list comprehension: KeyError when the
\* record has no id (nothing popped) or no vectors (id already popped)
TransformItem ==
    /\ pc = "transform"
    /\ idx <= Len(data)
    /\ LET item == data[idx] IN
       IF "id" \notin DOMAIN item
       THEN /\ pc' = "error"
            /\ errAt' = "transform"
            /\ UNCHANGED <<data, idx, points>>
       ELSE IF "vectors" \notin DOMAIN item
       THEN /\ pc' = "error"
            /\ errAt' = "transform"
            /\ data' = [data EXCEPT ![idx] = Pop(item, "id")]
            /\ UNCHANGED <<idx, points>>
       ELSE /\ points' = Append(points, PointStruct(item))
            /\ data' = [data EXCEPT ![idx] = Pop(Pop(item, "id"), "vectors")]
            /\ idx' = idx + 1
            /\ pc' = IF idx = Len(data) THEN "upsert" ELSE "transform"
            /\ UNCHANGED errAt
    /\ UNCHANGED <<run, file, db, connected, vector_size, reported, calls,
                   dbStart, prevDone>>

\* line 55, client.upsert(collection_name=COLLECTION_NAME, points=points)
Upsert ==
    /\ pc = "upsert"
    /\ \E ok \in BOOLEAN :
        /\ ok => DbAccepts(db, points)
        /\ calls' = Append(calls, [op |-> "upsert", ok |-> ok, n |-> Len(points)])
        /\ IF ok
           THEN /\ db' = DbUpsert(db, points)
                /\ pc' = "report"
                /\ UNCHANGED errAt
           ELSE /\ pc' = "error"
                /\ errAt' = "upsert"
                /\ UNCHANGED db
    /\ UNCHANGED <<run, file, locals, dbStart, prevDone>>

\* the count printed is the number of points stored in the collection
ReportStored ==
    /\ pc = "report"
    /\ reported' = Cardinality(db.points)
    /\ pc' = "done"
    /\ UNCHANGED <<run, file, db, connected, data, vector_size, idx, points,
                   calls, errAt, dbStart, prevDone>>

\* line 56, print(f"Done! Inserted {len(points)} points.")
Report ==
    /\ pc = "report"
    /\ reported' = Len(points)
    /\ pc' = "done"
    /\ UNCHANGED <<run, file, db, connected, data, vector_size, idx, points,
                   calls, errAt, dbStart, prevDone>>

\* lines 58-59, the script is started again with the same data.json
Rerun ==
    /\ pc \in {"done", "error"}
    /\ run < MaxRuns
    /\ run' = run + 1
    /\ pc' = "connect"
    /\ connected' = FALSE
    /\ data' = <<>>
    /\ vector_size' = 0
    /\ idx' = 1
    /\ points' = <<>>
    /\ calls' = <<>>
    /\ reported' = -1
    /\ errAt' = ""
    /\ dbStart' = db
    /\ prevDone' = IF pc = "done" THEN [valid |-> TRUE, points |-> db.points] ELSE NoPrev
    /\ UNCHANGED <<file, db>>

Next ==
    \/ ProbeFail
    \/ ProbeOk
    \/ LoopExit
    \/ Load
    \/ LoadFail
    \/ VectorSize
    \/ CollectionExists
    \/ CreateCollection
    \/ TransformItem
    \/ Upsert
    \/ Report
    \/ Rerun

Spec == Init /\ [][Next]_vars

\* ---- properties ----------------------------------------------------------
HasField(i, k) == i \in 1..Len(file) /\ k \in DOMAIN file[i]

\* every record of data.json has id and vectors
WellFormed == \A i \in 1..Len(file) : HasField(i, "id") /\ HasField(i, "vectors")

\* all vectors of data.json have the same length
Uniform ==
    \A i, j \in 1..Len(file) :
        HasField(i, "vectors") /\ HasField(j, "vectors")
            => Len(file[i]["vectors"]) = Len(file[j]["vectors"])

IsFailedProbe(c) == c.op = "get_collections" /\ ~c.ok

\* C1: N failed health probes followed by a success make exactly N+1 probes
\* in the run: while not connected the run sits in the retry loop having made
\* only failed probes, and once connected the log of calls starts with the N
\* failures, then the one successful probe, and holds no later probe.
C1_ProbeCount ==
    /\ ~connected =>
        /\ pc = "connect"
        /\ \A i \in 1..Len(calls) : IsFailedProbe(calls[i])
    /\ connected =>
        /\ Cardinality(CallsOf("get_collections")) = Fails + 1
        /\ Len(calls) >= Fails + 1
        /\ \A i \in 1..Fails : IsFailedProbe(calls[i])
        /\ calls[Fails + 1] = Call("get_collections", TRUE)
        /\ \A i \in (Fails + 2)..Len(calls) : calls[i].op # "get_collections"

C1_Witness ==
    /\ pc = "done"
    /\ Fails = 2
    /\ Cardinality(CallsOf("get_collections")) = 3
    /\ Len(calls) > 3

\* C2: a collection that exists at the start of a run is never created again
\* and keeps its vector size and distance metric; create_collection is called
\* at most once in any run.
C2_NoCreateWhenExists ==
    /\ Cardinality(CallsOf("create_collection")) <= 1
    /\ dbStart.exists =>
        /\ CallsOf("create_collection") = {}
        /\ db.exists
        /\ db.size = dbStart.size
        /\ db.distance = dbStart.distance

C2_Witness ==
    /\ pc = "done"
    /\ dbStart.exists
    /\ dbStart.distance = "Euclid"
    /\ CallsOf("collection_exists") # {}
    /\ db.points # dbStart.points

\* C3: a completed run on a well-formed, non-empty, uniform array made one
\* upsert call carrying len(data) points and reported len(data).
C3_CountWritten ==
    (pc = "done" /\ WellFormed /\ Uniform /\ file # <<>>) =>
        /\ Cardinality(CallsOf("upsert")) = 1
        /\ \A i \in CallsOf("upsert") : calls[i].ok /\ calls[i].n = Len(file)
        /\ Len(points) = Len(file)
        /\ reported = Len(file)

C3_Witness ==
    /\ pc = "done"
    /\ Len(file) = 2
    /\ reported = 2
    /\ file[1]["id"] = file[2]["id"]
    /\ dbStart.points # {}

\* C4: the i-th point built has the i-th record's id as identifier, its
\* vectors as vector, and as payload exactly the record's other fields with
\* their values.
C4_FieldPlacement ==
    \A i \in 1..Len(points) :
        /\ HasField(i, "id") /\ HasField(i, "vectors")
        /\ points[i].id = file[i]["id"]
        /\ points[i].vector = file[i]["vectors"]
        /\ DOMAIN points[i].payload = DOMAIN file[i] \ {"id", "vectors"}
        /\ \A k \in DOMAIN points[i].payload : points[i].payload[k] = file[i][k]

C4_Witness ==
    /\ Len(points) = 2
    /\ DOMAIN points[1].payload = {"cam"}
    /\ DOMAIN points[2].payload = {}

\* C5: a run that completes right after a completed run on the same input
\* leaves the stored points as the first run left them.
C5_Idempotent ==
    (pc = "done" /\ prevDone.valid) => db.points = prevDone.points

C5_Witness ==
    /\ pc = "done"
    /\ prevDone.valid
    /\ run = 2
    /\ Cardinality(db.points) = 3

\* C6: on an empty array the run never gets past the dimensionality
\* inference: it makes no create_collection and no upsert call, leaves the
\* database as it was, and the only way on from line 39 is the error state.
C6_EmptyInput ==
    file = <<>> =>
        /\ pc \in {"connect", "load", "vector_size", "error"}
        /\ CallsOf("create_collection") = {}
        /\ CallsOf("upsert") = {}
        /\ CallsOf("collection_exists") = {}
        /\ db = dbStart
        /\ pc = "error" => errAt \in {"load", "vector_size"}

C6_Witness ==
    /\ file = <<>>
    /\ pc = "error"
    /\ errAt = "vector_size"
    /\ ~db.exists

\* C7: when some record lacks id or vectors the run never reaches the upsert
\* call: no upsert is made, the stored points stay as they were and the run
\* cannot complete.
C7_MalformedDropsBatch ==
    ~WellFormed =>
        /\ CallsOf("upsert") = {}
        /\ db.points = dbStart.points
        /\ pc \notin {"upsert", "report", "done"}
        /\ idx <= Len(file)

C7_Witness ==
    /\ pc = "error"
    /\ errAt = "transform"
    /\ Len(points) = 1
    /\ idx = 2
    /\ CallsOf("upsert") = {}

\* C8: every create_collection call passes the length of the first record's
\* vectors and the cosine metric, and the collection a run created has that
\* configuration.
C8_CreatedSize ==
    /\ \A i \in CallsOf("create_collection") :
        /\ HasField(1, "vectors")
        /\ calls[i].size = Len(file[1]["vectors"])
        /\ calls[i].distance = "Cosine"
    /\ (~dbStart.exists /\ db.exists) =>
        /\ HasField(1, "vectors")
        /\ db.size = Len(file[1]["vectors"])
        /\ db.distance = "Cosine"

C8_Witness ==
    /\ ~dbStart.exists
    /\ db.exists
    /\ HasField(2, "vectors")
    /\ Len(file[2]["vectors"]) # Len(file[1]["vectors"])

\* what holds in every state for C9
C9_State ==
    /\ ~connected => pc = "connect" /\ errAt = ""
    /\ pc = "error" => connected /\ errAt \notin {"", "connect"}
    /\ \A i \in 1..Len(calls) :
        (~calls[i].ok /\ calls[i].op # "get_collections")
            => i = Len(calls) /\ pc = "error"
    /\ \A op \in {"collection_exists", "create_collection", "upsert"} :
        Cardinality(CallsOf(op)) <= 1

\* what holds of every step for C9
C9_Step ==
    /\ (~connected /\ calls' = Append(calls, Call("get_collections", FALSE)))
        => pc' = "connect" /\ ~connected'
    /\ (pc = "error" /\ run' = run) => UNCHANGED vars
    /\ (pc # "error" /\ pc' = "error") => (connected /\ run' = run)

\* C9: failed probes keep the run in the retry loop, never in done or error;
\* any failure after the connection ends the run in the error state, where
\* nothing more is called or changed.
C9_OnlyConnectRetries == [](C9_State) /\ [][C9_Step]_vars

C9_Witness ==
    /\ pc = "error"
    /\ Fails = 2
    /\ errAt = "upsert"
    /\ ~calls[Len(calls)].ok

\* C10: a run that ended in an error left the stored points as they were and
\* changed at most the existence of the collection (created empty with the
\* inferred size); create_collection precedes upsert, each is called at most
\* once, and upsert is the last call of the run.
C10_FailedRunFrame ==
    /\ pc = "error" =>
        /\ db.points = dbStart.points
        /\ \/ db = dbStart
           \/ /\ ~dbStart.exists
              /\ db = Collection(vector_size, "Cosine", {})
    /\ Cardinality(CallsOf("create_collection")) <= 1
    /\ Cardinality(CallsOf("upsert")) <= 1
    /\ \A i \in CallsOf("upsert") : i = Len(calls)
    /\ db # dbStart =>
        \E i \in 1..Len(calls) :
            calls[i].ok /\ calls[i].op \in {"create_collection", "upsert"}

C10_Witness ==
    /\ pc = "error"
    /\ errAt = "transform"
    /\ idx = 2
    /\ ~dbStart.exists
    /\ db.exists
    /\ db.points = {}
====
